---------------------------- MODULE Spec2Model ----------------------------
(***************************************************************************)
(* Model of the text post-processing core of financial_risk_analyzer:      *)
(*   - postprocess_supervisor_output  (src/agents.py:191-233)              *)
(*   - truncate_summary               (src/agents.py:235-243)              *)
(*   - extract_summary_and_score      (src/agents.py:285-293)              *)
(*                                                                         *)
(* A text is a sequence of one-character strings, so that the regular      *)
(* expressions of the source are computed character by character.          *)
(* A score (a Python float) is a record [cls, n, x]: the finite value      *)
(* n * 10^x with n not a multiple of 10 (0.735 is 735 * 10^-3), or an      *)
(* infinity, or nan.                                                       *)
(***************************************************************************)
EXTENDS Integers, Sequences, FiniteSets

VARIABLES
    layout,           \* how the synthesis text is laid out (see SynthesisText)
    llm_output,       \* the synthesis text handed to postprocess_supervisor_output
    fallback_scores,  \* its fallback_scores argument: name -> [summary, impact_score]
    output,           \* the dict it builds and serialises (line 194 before the call)
    report_text,      \* the argument of extract_summary_and_score
    extracted,        \* its (summary, score) result
    raised,           \* the exception the call raised, "" for none
    pc,               \* "start" before the call; "done" or "raised" after it
    tr_text,          \* the text argument of truncate_summary
    tr_max,           \* its max_chars argument
    tr_result,        \* the string it returns
    status,           \* of the graph run: "idle", "running", "done", "failed"
    run,              \* how many times the compiled graph has been invoked
    state,            \* the AgentState of the run: key -> tagged value
    task,             \* node -> "idle", "scheduled", "running", "finished"
    writes,           \* what the finished nodes of this superstep returned
    superstep,        \* the number of the superstep in progress
    seen,             \* the five reports supervisor_node read from the state
    calls,            \* RateLimitTracker.calls: service -> list of timestamps
    lock,             \* RateLimitTracker.lock: the thread holding it, or "free"
    clock,            \* what time.time() returns at this moment
    op,               \* thread -> the method it is in, "none" outside any
    tpc,              \* thread -> where it is in that method
    service,          \* thread -> the method's service argument
    now,              \* thread -> the method's local now
    kept,             \* thread -> the list its comprehension has built
    result,           \* thread -> the value the method is returning
    started,          \* how many method calls have begun
    logged            \* service -> the timestamps of the log_calls that returned

truncVars == <<tr_text, tr_max, tr_result>>

coreVars ==
    <<layout, llm_output, fallback_scores, output, raised, report_text,
      extracted, pc>>

graphVars == <<status, run, state, task, writes, superstep, seen>>

trackerVars ==
    <<calls, lock, clock, op, tpc, service, now, kept, result, started, logged>>

vars ==
    <<layout, llm_output, fallback_scores, output, raised, report_text,
      extracted, pc, truncVars, graphVars, trackerVars>>

NL == "\n"

\* ------------------------------------------------------------------
\* Characters and generic string operations (Python str / re semantics)
\* ------------------------------------------------------------------

\* the control characters 0x0b and 0x1c to 0x1f, written as themselves
VT == ""
FS == ""
GS == ""
RS == ""
US == ""

\* \s of the re module and the characters str.strip() removes: the ASCII
\* white space.  (Python also counts 0x85, 0xa0 and the other Unicode
\* spaces, characters that cannot be written in a string of this module.)
IsSpace(c) == c \in {" ", NL, "\t", "\r", "\f", VT, FS, GS, RS, US}

\* \d of the re module (ASCII digits)
IsDigit(c) == c \in {"0", "1", "2", "3", "4", "5", "6", "7", "8", "9"}

DigitVal(c) ==
    CASE c = "0" -> 0 [] c = "1" -> 1 [] c = "2" -> 2 [] c = "3" -> 3
      [] c = "4" -> 4 [] c = "5" -> 5 [] c = "6" -> 6 [] c = "7" -> 7
      [] c = "8" -> 8 [] c = "9" -> 9

\* Body applied to the value of e: e is evaluated once and the value is
\* named, as an assignment to a local variable does
Bind(e, Body(_)) == CHOOSE r \in {Body(v) : v \in {e}} : TRUE

SetMin(S) == CHOOSE x \in S : \A y \in S : x <= y

SetMax(S) == CHOOSE x \in S : \A y \in S : x >= y

\* text[from:] from a 1-based index
Drop(s, from) == SubSeq(s, from, Len(s))

\* the literal lit occurs in s at index p
MatchAt(s, p, lit) ==
    /\ p >= 1
    /\ p + Len(lit) - 1 <= Len(s)
    /\ \A k \in 1..Len(lit) : s[p + k - 1] = lit[k]

\* index of the first non-space character at or after p (Len(s)+1 if none):
\* where a greedy \s* starting at p stops
RECURSIVE SkipSpaces(_, _)
SkipSpaces(s, p) ==
    IF p <= Len(s) /\ IsSpace(s[p]) THEN SkipSpaces(s, p + 1) ELSE p

\* index of the first non-digit character at or after p: where a greedy \d+
\* (or \d*) starting at p stops
RECURSIVE SkipDigits(_, _)
SkipDigits(s, p) ==
    IF p <= Len(s) /\ IsDigit(s[p]) THEN SkipDigits(s, p + 1) ELSE p

\* index of the first newline at or after p (Len(s)+1 if none): where a
\* non-DOTALL .* starting at p stops
LineEnd(s, p) ==
    LET stop == {q \in p..Len(s) : s[q] = NL}
    IN  IF stop = {} THEN Len(s) + 1 ELSE SetMin(stop)

\* index of the last non-space character at or before p (0 if none)
RECURSIVE SkipSpacesBack(_, _)
SkipSpacesBack(s, p) ==
    IF p >= 1 /\ IsSpace(s[p]) THEN SkipSpacesBack(s, p - 1) ELSE p

\* str.strip()
Strip(s) == SubSeq(s, SkipSpaces(s, 1), SkipSpacesBack(s, Len(s)))

\* the pieces of str.split(sep) that lie at or after index from
RECURSIVE SplitFrom(_, _, _)
SplitFrom(s, sep, from) ==
    LET at == {q \in from..Len(s) : s[q] = sep}
    IN  IF at = {} THEN <<SubSeq(s, from, Len(s))>>
        ELSE Bind(SetMin(at), LAMBDA q :
                 <<SubSeq(s, from, q - 1)>> \o SplitFrom(s, sep, q + 1))

\* str.split(sep) for a one-character separator: every piece, empty ones too
Split(s, sep) == SplitFrom(s, sep, 1)

\* the line boundaries of str.splitlines() (also 0x85, U+2028 and U+2029,
\* which cannot be written in a string of this module)
LineBreaks == {NL, "\r", "\f", VT, FS, GS, RS}

\* the lines of str.splitlines() that start at or after index from
RECURSIVE SplitLinesFrom(_, _)
SplitLinesFrom(s, from) ==
    LET at == {q \in from..Len(s) : s[q] \in LineBreaks}
    IN  IF from > Len(s) THEN <<>>
        ELSE IF at = {} THEN <<SubSeq(s, from, Len(s))>>
        ELSE Bind(SetMin(at), LAMBDA q :
                 <<SubSeq(s, from, q - 1)>>
                 \o SplitLinesFrom(s, IF s[q] = "\r" /\ q < Len(s) /\ s[q + 1] = NL
                                      THEN q + 2 ELSE q + 1))

\* str.splitlines(): the text is cut at every line boundary, "\r\n" being
\* one boundary; no empty line follows a final boundary
SplitLines(s) == SplitLinesFrom(s, 1)

\* ------------------------------------------------------------------
\* Floats: float(text), +, round(x, 2)
\*
\* A float is [cls |-> "fin", n |-> n, x |-> x], the number n * 10^x where
\* n = 0 goes with x = 0 and otherwise 10 does not divide n; an infinity
\* [cls |-> "inf", n |-> 1 or -1, x |-> 0]; or the nan.  A finite double is
\* held as the shortest decimal that denotes it.  n stays below 2^31 (TLC
\* stops with an overflow error beyond that); -0.0 is held as 0; a
\* subnormal (below 2.3e-308) is held as the decimal it was read from.
\* ------------------------------------------------------------------

Zero == [cls |-> "fin", n |-> 0, x |-> 0]

NaN == [cls |-> "nan", n |-> 0, x |-> 0]

Inf(sign) == [cls |-> "inf", n |-> sign, x |-> 0]

Abs(n) == IF n < 0 THEN -n ELSE n

RECURSIVE Pow10(_)
Pow10(k) == IF k <= 0 THEN 1 ELSE 10 * Pow10(k - 1)

\* the number of decimal digits of n > 0
RECURSIVE NumDigits(_)
NumDigits(n) == IF n < 10 THEN 1 ELSE 1 + NumDigits(n \div 10)

\* the finite float n * 10^x
RECURSIVE Fin(_, _)
Fin(n, x) ==
    IF n = 0 THEN Zero
    ELSE IF n % 10 = 0 THEN Fin(n \div 10, x + 1)
    ELSE [cls |-> "fin", n |-> n, x |-> x]

\* the float of t thousandths
Milli(t) == Fin(t, -3)

\* the decimal exponent of the leading digit of a finite f # 0
Lead(f) == f.x + NumDigits(Abs(f.n)) - 1

\* the first nine digits of n > 0 (zeros appended to a shorter n)
Top9(n) ==
    LET d == NumDigits(n)
    IN  IF d <= 9 THEN n * Pow10(9 - d) ELSE n \div Pow10(d - 9)

\* a decimal too large for a double: 1.7976931348623158e308 and above
IsHuge(f) ==
    /\ f.n # 0
    /\ \/ Lead(f) > 308
       \/ /\ Lead(f) = 308
          /\ IF NumDigits(Abs(f.n)) <= 9 THEN Top9(Abs(f.n)) >= 179769314
             ELSE Abs(f.n) >= 1797693135

\* a decimal that becomes 0.0: 2.4703282292062327e-324 and below
IsTiny(f) ==
    /\ f.n # 0
    /\ \/ Lead(f) < -324
       \/ /\ Lead(f) = -324
          /\ (NumDigits(Abs(f.n)) > 9 \/ Top9(Abs(f.n)) <= 247032822)

\* the double a decimal is converted to: overflow gives an infinity,
\* underflow 0.0
Clamp(f) ==
    IF f.cls # "fin" THEN f
    ELSE IF IsHuge(f) THEN Inf(IF f.n < 0 THEN -1 ELSE 1)
    ELSE IF IsTiny(f) THEN Zero
    ELSE f

\* a + b, as the decimal sum of the two decimals.  The double sum is the
\* double nearest to it: the two differ by less than one part in 10^15,
\* which decides nothing but the side of a rounding tie (RoundMean).  A
\* finite term eighteen or more decimal orders below the other is below
\* half a unit in its last place and leaves it unchanged.
FAdd(a, b) ==
    IF a.cls = "nan" \/ b.cls = "nan" THEN NaN
    ELSE IF a.cls = "inf" THEN (IF b.cls = "inf" /\ b.n # a.n THEN NaN ELSE a)
    ELSE IF b.cls = "inf" THEN b
    ELSE IF a.n = 0 THEN b
    ELSE IF b.n = 0 THEN a
    ELSE IF Lead(a) - Lead(b) >= 18 THEN a
    ELSE IF Lead(b) - Lead(a) >= 18 THEN b
    ELSE LET x == IF a.x < b.x THEN a.x ELSE b.x
         IN  Clamp(Fin(a.n * Pow10(a.x - x) + b.n * Pow10(b.x - x), x))

\* bool(f): a float is false only when it is zero
Truthy(f) == f.cls # "fin" \/ f.n # 0

\* value of the first k digits of a digit string, read as an integer
RECURSIVE DigitsValTo(_, _)
DigitsValTo(ds, k) ==
    IF k = 0 THEN 0 ELSE 10 * DigitsValTo(ds, k - 1) + DigitVal(ds[k])

\* value of a digit string read as an integer ("" is 0)
DigitsVal(ds) == DigitsValTo(ds, Len(ds))

\* a digit part of a float literal: digits, with single underscores allowed
\* between two digits; the empty part is accepted here
DigitGroup(g) ==
    \/ g = <<>>
    \/ /\ IsDigit(g[1]) /\ IsDigit(g[Len(g)])
       /\ \A k \in 1..Len(g) : IsDigit(g[k]) \/ g[k] = "_"
       /\ \A k \in 1..(Len(g) - 1) : ~(g[k] = "_" /\ g[k + 1] = "_")

\* the digits of a digit part
GroupDigits(g) == SelectSeq(g, IsDigit)

\* a digit string without its leading zeros
StripLeadingZeros(ds) ==
    LET nz == {q \in 1..Len(ds) : ds[q] # "0"}
    IN  IF nz = {} THEN <<>> ELSE Drop(ds, SetMin(nz))

\* a digit string without its trailing zeros
StripTrailingZeros(ds) ==
    LET nz == {q \in 1..Len(ds) : ds[q] # "0"}
    IN  IF nz = {} THEN <<>> ELSE SubSeq(ds, 1, SetMax(nz))

\* the letters of "inf", "infinity" and "nan" in lower case
LowerChar(c) ==
    CASE c = "I" -> "i" [] c = "N" -> "n" [] c = "F" -> "f" [] c = "T" -> "t"
      [] c = "Y" -> "y" [] c = "A" -> "a" [] OTHER -> c

Lower(s) == [k \in 1..Len(s) |-> LowerChar(s[k])]

\* the value of the digits of an exponent, cut off at 100000 (any exponent
\* that large overflows or underflows whatever the mantissa holds here)
ExponentVal(ds) ==
    LET sig == StripLeadingZeros(ds)
    IN  IF Len(sig) > 5 THEN 100000 ELSE DigitsVal(sig)

\* the white space float() skips at both ends of an ASCII text: 0x1c to
\* 0x1f are not part of it
IsFloatSpace(c) == c \in {" ", NL, "\t", "\r", "\f", VT}

\* the exponent part of a float literal, the text after "e": an optional
\* sign and a digit part that is not empty
ParseExponent(etext) ==
    LET signed == etext # <<>> /\ etext[1] \in {"-", "+"}
        edigs  == IF signed THEN Tail(etext) ELSE etext
    IN  IF edigs # <<>> /\ DigitGroup(edigs)
        THEN [ok |-> TRUE,
              val |-> (IF signed /\ etext[1] = "-" THEN -1 ELSE 1)
                      * ExponentVal(GroupDigits(edigs))]
        ELSE [ok |-> FALSE, val |-> 0]

\* the float of the digits ip "." fp times 10^e, with the given sign
DecimalValue(ip, fp, e, sign) ==
    Bind(GroupDigits(ip) \o GroupDigits(fp), LAMBDA all :
    Bind(StripTrailingZeros(all), LAMBDA nz :
    Bind(StripLeadingZeros(nz), LAMBDA sig :
        IF sig = <<>> THEN Zero
        ELSE Bind(Fin(sign * DigitsVal(sig),
                      e - Len(GroupDigits(fp)) + Len(all) - Len(nz)),
                  LAMBDA f : Clamp(f)))))

\* a decimal number without sign: mant is the text before the exponent,
\* digits with an optional point and at least one digit before or after it
ParseDecimal(mant, e, sign) ==
    LET dots == {q \in 1..Len(mant) : mant[q] = "."}
    IN  Bind(IF dots = {} THEN mant ELSE SubSeq(mant, 1, SetMin(dots) - 1),
             LAMBDA ip :
        Bind(IF dots = {} THEN <<>> ELSE Drop(mant, SetMin(dots) + 1),
             LAMBDA fp :
            IF DigitGroup(ip) /\ DigitGroup(fp) /\ Len(ip) + Len(fp) >= 1
            THEN [ok |-> TRUE, val |-> DecimalValue(ip, fp, e, sign)]
            ELSE [ok |-> FALSE, val |-> Zero]))

\* a float literal without sign: "inf", "infinity" or "nan" in any case, or
\* a decimal number with an optional exponent
ParseUnsigned(body, sign) ==
    LET word == Lower(body)
        es   == {q \in 1..Len(body) : body[q] \in {"e", "E"}}
    IN  IF word = <<"i", "n", "f">>
           \/ word = <<"i", "n", "f", "i", "n", "i", "t", "y">>
        THEN [ok |-> TRUE, val |-> Inf(sign)]
        ELSE IF word = <<"n", "a", "n">> THEN [ok |-> TRUE, val |-> NaN]
        ELSE IF es = {} THEN ParseDecimal(body, 0, sign)
        ELSE Bind(SetMin(es), LAMBDA q :
             Bind(ParseExponent(Drop(body, q + 1)), LAMBDA e :
             Bind(SubSeq(body, 1, q - 1), LAMBDA mant :
                 IF e.ok THEN ParseDecimal(mant, e.val, sign)
                 ELSE [ok |-> FALSE, val |-> Zero])))

\* float(s): [ok |-> the call returned, val |-> its value]; not ok is the
\* ValueError.  The text is stripped; it is an optional sign followed by
\* "inf", "infinity" or "nan" in any case, or by a decimal number: digits
\* with an optional point and an optional exponent, at least one digit
\* before or after the point.  (float() also reads non-ASCII digits, which
\* cannot be written in a string of this module.)
ParseFloat(s) ==
    LET keep == {q \in 1..Len(s) : ~IsFloatSpace(s[q])}
    IN  Bind(IF keep = {} THEN <<>> ELSE SubSeq(s, SetMin(keep), SetMax(keep)),
             LAMBDA t :
            IF t # <<>> /\ t[1] \in {"-", "+"}
            THEN Bind(Tail(t), LAMBDA body :
                     ParseUnsigned(body, IF t[1] = "-" THEN -1 ELSE 1))
            ELSE ParseUnsigned(t, 1))

RECURSIVE Pow2Mod125(_)
Pow2Mod125(k) == IF k <= 0 THEN 1 ELSE (2 * Pow2Mod125(k - 1)) % 125

\* floor(log2(m)) for an integer m >= 1
RECURSIVE Log2Floor(_)
Log2Floor(m) == IF m < 2 THEN 0 ELSE 1 + Log2Floor(m \div 2)

\* the least c >= 0 with t * 2^c >= 1000
RECURSIVE ShiftTo1000(_)
ShiftTo1000(t) == IF t >= 1000 THEN 0 ELSE 1 + ShiftTo1000(2 * t)

\* For t thousandths, t ending in 5 (a tie between two hundredths): whether
\* round(t/1000, 2) takes the upper one.  Python rounds the double that
\* stands for t/1000: 53 bits m = round(t/1000 * 2^s), s = 52 - floor(log2(
\* t/1000)).  t * 2^(s-3) = 125 * m + R decides: R = 0, the double is the tie
\* itself and the even hundredth is taken; R <= 62, the double lies below
\* the tie; otherwise above it.
TieRoundsUp(t) ==
    LET b == IF t >= 1000 THEN Log2Floor(t \div 1000) ELSE -ShiftTo1000(t)
        R == ((t % 125) * Pow2Mod125(49 - b)) % 125
    IN  IF R = 0 THEN (t \div 10) % 2 = 1 ELSE R >= 63

\* round(f, 2): the hundredth nearest to the double
Round2(f) ==
    IF f.cls # "fin" \/ f.x >= -2 THEN f
    ELSE IF Lead(f) < -3 THEN Zero
    ELSE LET a    == Abs(f.n)
             sgn  == IF f.n < 0 THEN -1 ELSE 1
             k    == -f.x - 2
             lead == a \div Pow10(NumDigits(a) - 1)
             q    == IF Lead(f) = -3 THEN 0 ELSE a \div Pow10(k)
             r    == IF Lead(f) = -3 THEN 0 ELSE a % Pow10(k)
             up   == IF Lead(f) = -3
                     THEN (IF a = 5 THEN TieRoundsUp(5) ELSE lead >= 5)
                     ELSE IF r = 5 * Pow10(k - 1)
                     THEN TieRoundsUp(a)
                     ELSE r > 5 * Pow10(k - 1)
         IN  Fin(sgn * (IF up THEN q + 1 ELSE q), -2)

\* round(total / count, 2), count > 0: the values the call may return.
\* total is a sum of doubles, so when the exact quotient is a tie x.xx5 the
\* accumulated binary error decides the side: both hundredths are possible
\* outcomes.  Otherwise the nearest hundredth is the only one; a single
\* score is divided by 1 and rounded as it is.
RoundMean(total, count) ==
    IF total.cls # "fin" THEN {total}
    ELSE IF count = 1 THEN {Round2(total)}
    ELSE IF total.n = 0 \/ Lead(total) < -3 THEN {Zero}
    ELSE LET a    == Abs(total.n)
             sgn  == IF total.n < 0 THEN -1 ELSE 1
             h    == total.x + 2
             A    == IF h >= 0 THEN a * Pow10(h) ELSE a
             D    == IF h >= 0 THEN count ELSE count * Pow10(-h)
             q    == A \div D
             r    == A % D
             mags == IF 2 * r = D THEN {q, q + 1}
                     ELSE IF 2 * r > D THEN {q + 1}
                     ELSE {q}
         IN  {Fin(sgn * m, -2) : m \in mags}

\* ------------------------------------------------------------------
\* truncate_summary
\* ------------------------------------------------------------------

MaxChars == 350

\* str.find('.') in place of str.rfind('.'): the first period, not the last
RFindPeriodFirst(s) ==
    LET at == {q \in 1..Len(s) : s[q] = "."}
    IN  IF at = {} THEN 0 ELSE SetMin(at)

\* the period looked for in the whole text and the text cut after it
truncate_summaryAtAnyPeriod(text, max_chars) ==
    IF Len(text) <= max_chars THEN text
    ELSE LET at == {q \in 1..Len(text) : text[q] = "."}
         IN  IF at # {} THEN SubSeq(text, 1, SetMax(at))
             ELSE SubSeq(text, 1, max_chars)

\* str.rfind('.') as a 1-based index, 0 for -1
RFindPeriod(s) ==
    LET at == {q \in 1..Len(s) : s[q] = "."}
    IN  IF at = {} THEN 0 ELSE SetMax(at)

truncate_summary(text, max_chars) ==
    IF Len(text) <= max_chars THEN text
    ELSE LET truncated   == SubSeq(text, 1, max_chars)
             last_period == RFindPeriod(truncated)
         IN  IF last_period # 0 THEN SubSeq(truncated, 1, last_period)
             ELSE truncated

\* ------------------------------------------------------------------
\* postprocess_supervisor_output
\* ------------------------------------------------------------------

risk_names ==
    <<"Market Risk", "Credit Risk", "Liquidity Risk", "Operational Risk",
      "Regulatory/Compliance Risk">>

RiskNameLit == <<"R", "i", "s", "k", " ", "N", "a", "m", "e">>

\* index of the last newline of the text, 0 if it has none
LastNewline(text) ==
    LET at == {q \in 1..Len(text) : text[q] = NL}
    IN  IF at = {} THEN 0 ELSE SetMax(at)

\* The lazy ".*?\n" of the table pattern, started at index from: the first
\* newline q >= from after which "((?:\|.*\n)+)" can match, that is, followed
\* by a "|" with one more newline somewhere behind it.  0 if there is none.
HeaderEnd(text, from, last) ==
    LET ends == {q \in from..(last - 1) : text[q] = NL /\ text[q + 1] = "|"}
    IN  IF ends = {} THEN 0 ELSE SetMin(ends)

\* re.search(r"\|\s*Risk Name.*?\n((?:\|.*\n)+)", llm_output, re.DOTALL):
\* [found, group] with group = group(1).  Under DOTALL the greedy ".*" of the
\* group runs over line ends, so the group reaches from the line after the
\* header to the last newline of the whole text.
table_match(text) ==
    Bind(LastNewline(text), LAMBDA last :
        LET after(p) == SkipSpaces(text, p + 1) + Len(RiskNameLit)
            starts == {p \in 1..Len(text) :
                         /\ text[p] = "|"
                         /\ MatchAt(text, SkipSpaces(text, p + 1), RiskNameLit)
                         /\ HeaderEnd(text, after(p), last) # 0}
        IN  IF starts = {} THEN [found |-> FALSE, group |-> <<>>]
            ELSE [found |-> TRUE,
                  group |-> SubSeq(text,
                                   HeaderEnd(text, after(SetMin(starts)), last) + 1,
                                   last)])

\* [c.strip() for c in row.strip().split('|') if c.strip()]
Cols(row) ==
    Bind(Strip(row), LAMBDA r :
    Bind(Split(r, "|"), LAMBDA pieces :
        SelectSeq([k \in 1..Len(pieces) |-> Strip(pieces[k])],
                  LAMBDA c : c # <<>>)))

\* fallback_scores[name]["impact_score"] if fallback_scores else 0.0
\* (None and the empty dict are both the empty mapping here)
FallbackScore(fb, name) ==
    IF DOMAIN fb # {} THEN fb[name].impact_score ELSE Zero

\* an entry of table_scores: <<>> is None, <<v>> is the float v
NoScore == <<>>

\* the body of the loop for one row (lines 204-215): acc after the row at
\* index idx (0-based) whose cells are cols
RowStep(cols, idx, fb, acc) ==
    IF Len(cols) = 2 /\ idx < Len(risk_names)
    THEN Bind(ParseFloat(cols[2]), LAMBDA f :
         Bind(IF f.ok THEN f.val ELSE FallbackScore(fb, risk_names[idx + 1]),
              LAMBDA score :
             [risks |-> Append(acc.risks,
                               [name |-> risk_names[idx + 1],
                                summary |-> <<>>,
                                impact_score |-> Round2(score)]),
              table_scores |->
                  [acc.table_scores EXCEPT ![idx + 1] = <<score>>]]))
    ELSE acc

\* for idx, row in enumerate(table_rows): ... (lines 203-215), from index idx
\* (0-based) on; acc holds output["risks"] and table_scores
RECURSIVE TableLoop(_, _, _, _)
TableLoop(table_rows, idx, fb, acc) ==
    IF idx >= Len(table_rows) THEN acc
    ELSE Bind(Cols(table_rows[idx + 1]), LAMBDA cols :
         Bind(RowStep(cols, idx, fb, acc), LAMBDA next :
             TableLoop(table_rows, idx + 1, fb, next)))

\* the else branch (lines 216-225): every category from the fallback
FallbackLoop(fb) ==
    [risks |-> [i \in 1..Len(risk_names) |->
                  [name |-> risk_names[i],
                   summary |-> <<>>,
                   impact_score |-> Round2(FallbackScore(fb, risk_names[i]))]],
     table_scores |-> [i \in 1..Len(risk_names) |->
                         <<FallbackScore(fb, risk_names[i])>>]]

\* re.findall(r"\d+\.\s*(.*)", llm_output) from index from on: the captured
\* texts in document order.  The pattern is not anchored to a line start; a
\* match ends at the end of the line its capture starts on.
RECURSIVE FindAllNumbered(_, _)
FindAllNumbered(text, from) ==
    LET starts == {p \in from..Len(text) :
                     /\ IsDigit(text[p])
                     /\ SkipDigits(text, p) <= Len(text)
                     /\ text[SkipDigits(text, p)] = "."}
    IN  IF starts = {} THEN <<>>
        ELSE Bind(SkipDigits(text, SetMin(starts)), LAMBDA d :
             Bind(SkipSpaces(text, d + 1), LAMBDA c :
             Bind(LineEnd(text, c), LAMBDA e :
                 <<SubSeq(text, c, e - 1)>> \o FindAllNumbered(text, e))))

summary_matches(text) == FindAllNumbered(text, 1)

\* for idx, summary in enumerate(summary_matches): if idx < len(risks):
\*     risks[idx]["summary"] = truncate_summary(summary)
WithSummaries(risks, matches) ==
    [i \in 1..Len(risks) |->
        IF i <= Len(matches)
        THEN [risks[i] EXCEPT !.summary = truncate_summary(matches[i], MaxChars)]
        ELSE risks[i]]

\* sum([s for s in table_scores if s is not None]) from entry i on, acc
\* being the sum so far (sum() adds from the left, starting at 0)
RECURSIVE SumScores(_, _, _)
SumScores(ts, i, acc) ==
    IF i > Len(ts) THEN acc
    ELSE Bind(IF ts[i] = NoScore THEN acc ELSE FAdd(acc, ts[i][1]),
              LAMBDA sum : SumScores(ts, i + 1, sum))

\* any(table_scores): some entry is neither None nor zero
AnyScore(ts) == \E i \in 1..Len(ts) : ts[i] # NoScore /\ Truthy(ts[i][1])

\* [s for s in table_scores if s is not None], as the indices it keeps
Present(ts) == {i \in 1..Len(ts) : ts[i] # NoScore}

\* line 232: round(sum(present) / len(present), 2) if any(table_scores)
\* else 0.0; the possible values (none when the division raises)
FinalRiskScore(ts) ==
    IF AnyScore(ts)
    THEN IF Present(ts) = {} THEN {}
         ELSE Bind(SumScores(ts, 1, Zero), LAMBDA total :
                  RoundMean(total, Cardinality(Present(ts))))
    ELSE {Zero}

\* output["risks"] and table_scores as lines 196-225 leave them
Collected(text, fb) ==
    Bind(table_match(text), LAMBDA m :
        IF m.found
        THEN Bind(Strip(m.group), LAMBDA table_text :
             Bind(SplitLines(table_text), LAMBDA table_rows :
                 TableLoop(table_rows, 0, fb,
                           [risks |-> <<>>,
                            table_scores |->
                                [i \in 1..Len(risk_names) |-> NoScore]])))
        ELSE FallbackLoop(fb))

\* The exception postprocess_supervisor_output raises, "" for none: the
\* division of line 232 is by len([...]) and raises when it is evaluated
\* with no score present.  (float() is inside try/except, and the fallback
\* lookups cannot fail for a mapping that holds all five categories.)
postprocess_raises(text, fb) ==
    Bind(Collected(text, fb).table_scores, LAMBDA ts :
        IF AnyScore(ts) /\ Present(ts) = {} THEN "ZeroDivisionError" ELSE "")

\* The dicts that postprocess_supervisor_output may serialise with json.dumps
\* for one input: exactly one, unless the mean is a rounding tie.
postprocess_supervisor_output(text, fb) ==
    Bind(Collected(text, fb), LAMBDA acc :
    Bind(summary_matches(text), LAMBDA matches :
    Bind(WithSummaries(acc.risks, matches), LAMBDA risks :
        {[risks |-> risks, final_risk_score |-> f] :
            f \in FinalRiskScore(acc.table_scores)})))

\* ------------------------------------------------------------------
\* extract_summary_and_score
\* ------------------------------------------------------------------

SummaryLit == <<"S", "u", "m", "m", "a", "r", "y", ":">>

ImpactScoreLit == <<"I", "m", "p", "a", "c", "t", " ", "S", "c", "o", "r", "e", ":">>

\* re.search(r"Summary:\s*(.*)", report_text): the index of the first
\* "Summary:" (the rest of the pattern matches anything), 0 for no match
summary_match(text) ==
    LET at == {p \in 1..Len(text) : MatchAt(text, p, SummaryLit)}
    IN  IF at = {} THEN 0 ELSE SetMin(at)

\* group(1) of summary_match: after the marker and the white space behind it
\* (line ends included), up to the end of that line
SummaryGroup(text, p) ==
    LET c == SkipSpaces(text, p + Len(SummaryLit))
    IN  SubSeq(text, c, LineEnd(text, c) - 1)

\* ScoreGroupEnd with the optional fraction left out: the group is "[01]"
ScoreGroupEndNoFraction(text, c) == c + 1

\* where "([01](?:\.\d+)?)" ends when it starts at index c (exclusive)
ScoreGroupEnd(text, c) ==
    IF c + 2 <= Len(text) /\ text[c + 1] = "." /\ IsDigit(text[c + 2])
    THEN SkipDigits(text, c + 2)
    ELSE c + 1

\* re.search(r"Impact Score:\s*([01](?:\.\d+)?)", report_text): the index
\* where group(1) starts in the first match, 0 for no match
score_match(text) ==
    LET start(p) == SkipSpaces(text, p + Len(ImpactScoreLit))
        at == {p \in 1..Len(text) :
                 /\ MatchAt(text, p, ImpactScoreLit)
                 /\ start(p) <= Len(text)
                 /\ text[start(p)] \in {"0", "1"}}
    IN  IF at = {} THEN 0 ELSE start(SetMin(at))

extract_summary_and_score(text) ==
    Bind(summary_match(text), LAMBDA sm :
    Bind(score_match(text), LAMBDA c :
        [summary |-> IF sm # 0 THEN Strip(SummaryGroup(text, sm)) ELSE Strip(text),
         score   |-> IF c # 0
                     THEN Bind(ParseFloat(SubSeq(text, c, ScoreGroupEnd(text, c) - 1)),
                               LAMBDA f : IF f.ok THEN f.val ELSE Zero)
                     ELSE Zero]))

\* ------------------------------------------------------------------
\* The synthesis texts and fallback mappings the function is applied to
\* ------------------------------------------------------------------

MaxRows == 6

MaxItems == 5

RECURSIVE Concat(_)
Concat(seqs) == IF seqs = <<>> THEN <<>> ELSE Head(seqs) \o Concat(Tail(seqs))

HeaderRow == <<"|", " ", "R", "i", "s", "k", " ", "N", "a", "m", "e", " ", "|", " ", "I", "m", "p", "a", "c", "t", " ", "S", "c", "o", "r", "e", " ", "|">>

SeparatorRow == <<"|", "-", "-", "-", "-", "-", "-", "-", "-", "-", "-", "-", "|", "-", "-", "-", "-", "-", "-", "-", "-", "-", "-", "-", "-", "-", "-", "|">>

FinalScoreLine == <<"F", "i", "n", "a", "l", " ", "R", "i", "s", "k", " ", "S", "c", "o", "r", "e", ":", " ", "0", ".", "6", "4">>

\* the label cell of data row k
RowLabel(k) ==
    CASE k = 1 -> <<"M", "a", "r", "k", "e", "t", " ", "R", "i", "s", "k">>
      [] k = 2 -> <<"C", "r", "e", "d", "i", "t", " ", "R", "i", "s", "k">>
      [] k = 3 -> <<"L", "i", "q", "u", "i", "d", "i", "t", "y", " ", "R", "i", "s", "k">>
      [] k = 4 -> <<"O", "p", "e", "r", "a", "t", "i", "o", "n", "a", "l", " ", "R", "i", "s", "k">>
      [] k = 5 -> <<"R", "e", "g", "u", "l", "a", "t", "o", "r", "y", "/", "C", "o", "m", "p", "l", "i", "a", "n", "c", "e", " ", "R", "i", "s", "k">>
      [] OTHER -> <<"O", "t", "h", "e", "r", " ", "R", "i", "s", "k">>

\* the score written in data row k when the row is as the prompt mandates
\* (the scores of the spec's example), and its value in thousandths
RowScoreText(k) ==
    CASE k = 1 -> <<"0", ".", "8">>
      [] k = 2 -> <<"0", ".", "6">>
      [] k = 3 -> <<"0", ".", "4">>
      [] k = 4 -> <<"0", ".", "9">>
      [] k = 5 -> <<"0", ".", "5">>
      [] OTHER -> <<"0", ".", "3">>

RowScoreValue(k) ==
    CASE k = 1 -> 800 [] k = 2 -> 600 [] k = 3 -> 400 [] k = 4 -> 900
      [] k = 5 -> 500 [] OTHER -> 300

\* what may be unusual in one data row: a cell that is no number ("high"), a
\* third cell ("wide"), no score cell ("bare"), a number outside [0, 1]
\* ("big", "neg"), the cell "nan", a number with an exponent ("exp"), with
\* four decimals ("long"), half-way between two hundredths ("tie"), or a
\* row that ends in a carriage return before its line feed ("cr")
DefectKinds ==
    {"high", "wide", "bare", "big", "neg", "nan", "exp", "long", "tie", "cr"}

\* data row k, of kind "ok" or one of DefectKinds, without its line end
DataRow(k, kind) ==
    LET cell == CASE kind = "high" -> <<"h", "i", "g", "h">>
                  [] kind = "big"  -> <<"1", ".", "5">>
                  [] kind = "neg"  -> <<"-", "0", ".", "2">>
                  [] kind = "nan"  -> <<"n", "a", "n">>
                  [] kind = "exp"  -> <<"1", "e", "1">>
                  [] kind = "long" -> <<"0", ".", "7", "3", "5", "5">>
                  [] kind = "tie"  -> <<"2", ".", "6", "7", "5">>
                  [] OTHER         -> RowScoreText(k)
    IN  CASE kind = "bare" -> <<"|", " ">> \o RowLabel(k) \o <<" ", "|">>
          [] kind = "cr"   -> <<"|", " ">> \o RowLabel(k) \o <<" ", "|", " ">> \o cell
                                \o <<" ", "|", "\r">>
          [] kind = "wide" -> <<"|", " ">> \o RowLabel(k) \o <<" ", "|", " ">> \o cell
                                \o <<" ", "|", " ">> \o <<"n", "o", "t", "e">> \o <<" ", "|">>
          [] OTHER         -> <<"|", " ">> \o RowLabel(k) \o <<" ", "|", " ">> \o cell
                                \o <<" ", "|">>

\* the text of numbered-list item k
ItemText(k) ==
    CASE k = 1 -> <<"m", "k", "t">>
      [] k = 2 -> <<"c", "r", "d">>
      [] k = 3 -> <<"l", "i", "q">>
      [] k = 4 -> <<"o", "p", "s">>
      [] k = 5 -> <<"r", "e", "g">>
      [] OTHER -> <<"e", "t", "c">>

DigitChar(k) ==
    CASE k = 0 -> "0" [] k = 1 -> "1" [] k = 2 -> "2" [] k = 3 -> "3"
      [] k = 4 -> "4" [] k = 5 -> "5" [] k = 6 -> "6" [] k = 7 -> "7"
      [] k = 8 -> "8" [] k = 9 -> "9"

ItemLine(k) == <<DigitChar(k % 10), ".", " ">> \o ItemText(k)

\* A layout: items numbered-list lines, then (hdr) the header row, (sep) the
\* separator row, rows data rows of which row defect (0: none) is of kind
\* kind, and a tail: "cut" ends the text after the last line without a line
\* end, "nl" ends it with one, "final" adds a blank line and the
\* "Final Risk Score" line the prompt asks for.
Layouts ==
    {l \in [items : 0..MaxItems, hdr : BOOLEAN, sep : BOOLEAN, rows : 0..MaxRows,
            defect : 0..MaxRows, kind : DefectKinds \cup {"ok"},
            tail : {"cut", "nl", "final"}] :
        /\ l.defect <= l.rows
        /\ (l.defect = 0) = (l.kind = "ok")
        /\ ~l.hdr => l.defect = 0}

LayoutLines(l) ==
    [k \in 1..l.items |-> ItemLine(k)]
    \o (IF l.items > 0 THEN << <<>> >> ELSE <<>>)
    \o (IF l.hdr THEN <<HeaderRow>> ELSE <<>>)
    \o (IF l.sep THEN <<SeparatorRow>> ELSE <<>>)
    \o [k \in 1..l.rows |-> DataRow(k, IF k = l.defect THEN l.kind ELSE "ok")]
    \o (IF l.tail = "final" THEN << <<>>, FinalScoreLine >> ELSE <<>>)

\* "\n".join(lines), plus a final line end unless the tail is "cut"
SynthesisText(l) ==
    Bind(LayoutLines(l), LAMBDA lines :
    Bind([k \in 1..Len(lines) |->
            IF k < Len(lines) THEN lines[k] \o <<NL>> ELSE lines[k]],
         LAMBDA parts :
        IF l.tail = "cut" \/ lines = <<>> THEN Concat(parts)
        ELSE Concat(parts) \o <<NL>>))

\* a fallback mapping as supervisor_node builds it (risk_json), from five scores
Fallback(scores) ==
    [n \in {risk_names[i] : i \in 1..Len(risk_names)} |->
        [summary |-> <<>>,
         impact_score |->
             Milli(scores[CHOOSE i \in 1..Len(risk_names) : risk_names[i] = n])]]

FallbackVectors ==
    {<<120, 230, 310, 470, 560>>,
     <<124, 224, 324, 424, 534>>,
     <<0, 0, 0, 0, 0>>}

\* ------------------------------------------------------------------
\* Specification: postprocess_supervisor_output applied to one input
\* ------------------------------------------------------------------

NoExtract == [summary |-> <<>>, score |-> Zero]

\* truncate_summary is not being called
TruncateIdle ==
    /\ tr_text = <<>>
    /\ tr_max = 0
    /\ tr_result = <<>>

\* the compiled graph has not been invoked
GraphIdle ==
    /\ status = "idle"
    /\ run = 0
    /\ state = <<>>
    /\ task = <<>>
    /\ writes = {}
    /\ superstep = 0
    /\ seen = <<>>

\* rate_limiter as constructed (line 36), no thread inside it, at time 0
TrackerIdle ==
    /\ calls = <<>>
    /\ lock = "free"
    /\ clock = 0
    /\ op = <<>>
    /\ tpc = <<>>
    /\ service = <<>>
    /\ now = <<>>
    /\ kept = <<>>
    /\ result = <<>>
    /\ started = 0
    /\ logged = <<>>

Init ==
    /\ TruncateIdle
    /\ GraphIdle
    /\ TrackerIdle
    /\ layout \in Layouts
    /\ llm_output = SynthesisText(layout)
    /\ fallback_scores \in {Fallback(v) : v \in FallbackVectors}
    /\ output = [risks |-> <<>>, final_risk_score |-> Zero]
    /\ raised = ""
    /\ report_text = <<>>
    /\ extracted = NoExtract
    /\ pc = "start"

Postprocess ==
    /\ pc = "start"
    /\ \E ex \in {postprocess_raises(llm_output, fallback_scores)} :
           IF ex # ""
           THEN /\ raised' = ex
                /\ pc' = "raised"
                /\ UNCHANGED output
           ELSE /\ output' \in postprocess_supervisor_output(llm_output,
                                                            fallback_scores)
                /\ pc' = "done"
                /\ UNCHANGED raised
    /\ UNCHANGED <<layout, llm_output, fallback_scores, report_text, extracted>>
    /\ UNCHANGED <<truncVars, graphVars, trackerVars>>

Next == Postprocess

Spec == Init /\ [][Next]_vars

\* ------------------------------------------------------------------
\* Specification: extract_summary_and_score applied to one report
\* ------------------------------------------------------------------

MaxPad == 2

FooBar == <<"F", "o", "o", " ", "b", "a", "r", ".">>

Pad(n) == [k \in 1..n |-> " "]

\* what may stand before the report's own Summary / Impact Score lines
ReportPrefixes ==
    {<<>>,
     <<"M", "a", "r", "k", "e", "t", " ", "r", "i", "s", "k", " ", "r", "e", "p", "o", "r", "t", "\n">>,
     <<"S", "u", "m", "m", "a", "r", "y", ":", " ", "O", "l", "d", ".", "\n">>,
     <<"S", "u", "m", "m", "a", "r", "y", ":", "\n">>,
     <<"I", "m", "p", "a", "c", "t", " ", "S", "c", "o", "r", "e", ":", " ", "1", "\n">>,
     <<"I", "m", "p", "a", "c", "t", " ", "S", "c", "o", "r", "e", ":", " ", "n", "/", "a", "\n">>}

\* what may be written after "Impact Score:"
ScoreTexts ==
    {<<"0", ".", "7", "3">>, <<"0">>, <<"1">>, <<"1", ".", "0">>,
     <<"1", ".", "5">>, <<"1", "5">>, <<"0", ".", "0", "5">>,
     <<"h", "i", "g", "h">>, <<".", "5">>, <<"7">>,
     <<"0", ".", "7", "3", "5", "5">>, <<"1", "e", "1">>}

\* what may follow the score
ReportSuffixes ==
    {<<>>, <<NL>>, <<"\r", NL>>, <<"5">>, <<" ", "e", "n", "d">>,
     <<"\n", "S", "u", "m", "m", "a", "r", "y", ":", " ", "N", "e", "w", ".", "\n", "I", "m", "p", "a", "c", "t", " ", "S", "c", "o", "r", "e", ":", " ", "0", "\n">>}

\* A report: prefix, then (summary) the line "Summary:<pad>Foo bar.", then
\* (scored) "Impact Score:<pad><score>", then suffix.
Reports ==
    [prefix : ReportPrefixes, summary : BOOLEAN, scored : BOOLEAN,
     pad : 0..MaxPad, score : ScoreTexts, suffix : ReportSuffixes]

ReportText(r) ==
    r.prefix
    \o (IF r.summary THEN SummaryLit \o Pad(r.pad) \o FooBar \o <<NL>> ELSE <<>>)
    \o (IF r.scored THEN ImpactScoreLit \o Pad(r.pad) \o r.score ELSE <<>>)
    \o r.suffix

InitExtract ==
    /\ TruncateIdle
    /\ GraphIdle
    /\ TrackerIdle
    /\ layout \in Reports
    /\ report_text = ReportText(layout)
    /\ extracted = NoExtract
    /\ llm_output = <<>>
    /\ fallback_scores = Fallback(<<0, 0, 0, 0, 0>>)
    /\ output = [risks |-> <<>>, final_risk_score |-> Zero]
    /\ raised = ""
    /\ pc = "start"

Extract ==
    /\ pc = "start"
    /\ extracted' = extract_summary_and_score(report_text)
    /\ pc' = "done"
    /\ UNCHANGED <<layout, llm_output, fallback_scores, output, raised,
                   report_text>>
    /\ UNCHANGED <<truncVars, graphVars, trackerVars>>

NextExtract == Extract

SpecExtract == InitExtract /\ [][NextExtract]_vars

\* ------------------------------------------------------------------
\* Specification: truncate_summary applied to one (text, max_chars)
\* ------------------------------------------------------------------

MaxLen == 5
MaxCut == 4

Letters == {"A", "B", "."}

\* every text over Letters of length 0..MaxLen
ShortTexts == UNION {[1..n -> Letters] : n \in 0..MaxLen}

\* 500 'A', then ". ", then 100 'B': 602 characters
ExampleText ==
    [k \in 1..602 |->
        IF k <= 500 THEN "A"
        ELSE IF k = 501 THEN "."
        ELSE IF k = 502 THEN " "
        ELSE "B"]

TruncateInputs ==
    {<<t, m>> : t \in ShortTexts, m \in 0..MaxCut}
        \cup {<<ExampleText, MaxChars>>}

InitTruncate ==
    /\ \E inp \in TruncateInputs :
          /\ tr_text = inp[1]
          /\ tr_max = inp[2]
    /\ tr_result = <<>>
    /\ GraphIdle
    /\ TrackerIdle
    /\ layout = <<>>
    /\ llm_output = <<>>
    /\ fallback_scores = Fallback(<<0, 0, 0, 0, 0>>)
    /\ output = [risks |-> <<>>, final_risk_score |-> Zero]
    /\ raised = ""
    /\ report_text = <<>>
    /\ extracted = NoExtract
    /\ pc = "start"

Truncate ==
    /\ pc = "start"
    /\ tr_result' = truncate_summary(tr_text, tr_max)
    /\ pc' = "done"
    /\ UNCHANGED <<tr_text, tr_max>>
    /\ UNCHANGED <<layout, llm_output, fallback_scores, output, raised,
                   report_text, extracted>>
    /\ UNCHANGED <<graphVars, trackerVars>>

NextTruncate == Truncate

SpecTruncate == InitTruncate /\ [][NextTruncate]_vars

\* ------------------------------------------------------------------
\* rate_limiter (rate_limit.py): the methods of RateLimitTracker, called by
\* threads.  Each method reads time.time() before it takes the
\* lock; what it does under the lock is one step per statement part, so
\* that an append, the evaluation of a list comprehension and the
\* assignment of its result are separate steps.
\* ------------------------------------------------------------------

MaxOps == 3
MaxTicks == 2

window_seconds == 60

Threads == {"t1", "t2", "t3"}

\* the services the tools log (tools.py lines 23 and 45); llm_wrapper, which
\* would log "openai_llm" (agents.py line 47), is never called
Services == {"tavily", "yfinance"}

Methods == {"log_call", "get_count", "get_all_counts"}

\* self.calls[service] of a defaultdict(list), read without inserting the key
CallsOf(c, s) == IF s \in DOMAIN c THEN c[s] ELSE <<>>

\* self.calls[service] = list
SetCalls(c, s, list) ==
    [k \in DOMAIN c \cup {s} |-> IF k = s THEN list ELSE c[k]]

\* [t for t in list if now - t < self.window_seconds]
InWindow(list, n) == SelectSeq(list, LAMBDA t : n - t < window_seconds)

\* LockIsFree with the lock not honoured: the with block is entered anyway
LockIgnored == TRUE

\* threading.Lock: free to be acquired
LockIsFree == lock = "free"

\* time passes, in steps of half a minute
Tick ==
    /\ clock < 30 * MaxTicks
    /\ clock' = clock + 30
    /\ UNCHANGED <<calls, lock, op, tpc, service, now, kept, result, started,
                   logged>>
    /\ UNCHANGED <<coreVars, truncVars, graphVars>>

\* a thread calls a method: now = time.time() (lines 16, 23, 29)
Begin(th, method, s) ==
    /\ op[th] = "none"
    /\ started < MaxOps
    /\ started' = started + 1
    /\ op' = [op EXCEPT ![th] = method]
    /\ service' = [service EXCEPT ![th] = IF method = "get_all_counts" THEN "" ELSE s]
    /\ now' = [now EXCEPT ![th] = clock]
    /\ tpc' = [tpc EXCEPT ![th] = "with"]
    /\ UNCHANGED <<calls, lock, clock, kept, result, logged>>
    /\ UNCHANGED <<coreVars, truncVars, graphVars>>

\* with self.lock: (lines 17, 24, 30)
Acquire(th) ==
    /\ tpc[th] = "with"
    /\ LockIsFree
    /\ lock' = th
    /\ tpc' = [tpc EXCEPT ![th] = CASE op[th] = "log_call" -> "append"
                                    [] op[th] = "get_count" -> "filter"
                                    [] OTHER -> "loop"]
    /\ UNCHANGED <<calls, clock, op, service, now, kept, result, started, logged>>
    /\ UNCHANGED <<coreVars, truncVars, graphVars>>

\* self.calls[service].append(now) (line 18)
AppendNow(th) ==
    /\ tpc[th] = "append"
    /\ calls' = SetCalls(calls, service[th],
                         Append(CallsOf(calls, service[th]), now[th]))
    /\ tpc' = [tpc EXCEPT ![th] = "filter"]
    /\ UNCHANGED <<lock, clock, op, service, now, kept, result, started, logged>>
    /\ UNCHANGED <<coreVars, truncVars, graphVars>>

\* the list comprehension of line 20 or 25 is evaluated; reading
\* self.calls[service] inserts the key
Filter(th) ==
    /\ tpc[th] = "filter"
    /\ kept' = [kept EXCEPT ![th] = InWindow(CallsOf(calls, service[th]), now[th])]
    /\ calls' = SetCalls(calls, service[th], CallsOf(calls, service[th]))
    /\ tpc' = [tpc EXCEPT ![th] = "assign"]
    /\ UNCHANGED <<lock, clock, op, service, now, result, started, logged>>
    /\ UNCHANGED <<coreVars, truncVars, graphVars>>

\* self.calls[service] = <that list> (line 20 or 25)
Assign(th) ==
    /\ tpc[th] = "assign"
    /\ calls' = SetCalls(calls, service[th], kept[th])
    /\ tpc' = [tpc EXCEPT ![th] = IF op[th] = "get_count" THEN "len" ELSE "exit"]
    /\ UNCHANGED <<lock, clock, op, service, now, kept, result, started, logged>>
    /\ UNCHANGED <<coreVars, truncVars, graphVars>>

\* return len(self.calls[service]) (line 26): the value is computed
ReturnLen(th) ==
    /\ tpc[th] = "len"
    /\ result' = [result EXCEPT ![th] = Len(CallsOf(calls, service[th]))]
    /\ tpc' = [tpc EXCEPT ![th] = "exit"]
    /\ UNCHANGED <<calls, lock, clock, op, service, now, kept, started, logged>>
    /\ UNCHANGED <<coreVars, truncVars, graphVars>>

\* for service in self.calls: self.calls[service] = [...] (lines 31-32)
FilterAll(th) ==
    /\ tpc[th] = "loop"
    /\ calls' = [k \in DOMAIN calls |-> InWindow(calls[k], now[th])]
    /\ tpc' = [tpc EXCEPT ![th] = "dict"]
    /\ UNCHANGED <<lock, clock, op, service, now, kept, result, started, logged>>
    /\ UNCHANGED <<coreVars, truncVars, graphVars>>

\* return {service: len(times) for ...} (line 33): the value is computed
ReturnDict(th) ==
    /\ tpc[th] = "dict"
    /\ result' = [result EXCEPT ![th] = [k \in DOMAIN calls |-> Len(calls[k])]]
    /\ tpc' = [tpc EXCEPT ![th] = "exit"]
    /\ UNCHANGED <<calls, lock, clock, op, service, now, kept, started, logged>>
    /\ UNCHANGED <<coreVars, truncVars, graphVars>>

\* the with block is left and the method returns; a log_call that returns
\* is recorded in logged
Release(th) ==
    /\ tpc[th] = "exit"
    /\ lock' = "free"
    /\ logged' = IF op[th] = "log_call"
                 THEN SetCalls(logged, service[th],
                               Append(CallsOf(logged, service[th]), now[th]))
                 ELSE logged
    /\ op' = [op EXCEPT ![th] = "none"]
    /\ tpc' = [tpc EXCEPT ![th] = "out"]
    /\ service' = [service EXCEPT ![th] = ""]
    /\ now' = [now EXCEPT ![th] = 0]
    /\ kept' = [kept EXCEPT ![th] = <<>>]
    /\ result' = [result EXCEPT ![th] = 0]
    /\ UNCHANGED <<calls, clock, started>>
    /\ UNCHANGED <<coreVars, truncVars, graphVars>>

\* ------------------------------------------------------------------
\* Specification: runs of the compiled graph (graph.py, main.py)
\*
\* workflow.compile() yields a graph that runs in supersteps: the nodes
\* scheduled for a superstep run concurrently, each on the state as it was
\* when the superstep began; what they return is applied to the state when
\* all of them have finished, and the nodes their edges lead to are
\* scheduled for the next superstep.  A node that raises aborts the run.
\* ------------------------------------------------------------------

MaxRuns == 2

MaxTools == 1

\* workflow.add_node(...), lines 52-57
RiskNodes ==
    {"market_risk", "credit_risk", "liquidity_risk", "operational_risk",
     "regulatory_risk"}

Nodes == RiskNodes \cup {"supervisor"}

\* workflow.set_entry_point(...), lines 60-64
EntryPoints ==
    {"market_risk", "credit_risk", "liquidity_risk", "operational_risk",
     "regulatory_risk"}

\* workflow.add_edge(...), lines 66-71
Edges ==
    {<<"market_risk", "supervisor">>, <<"credit_risk", "supervisor">>,
     <<"liquidity_risk", "supervisor">>, <<"operational_risk", "supervisor">>,
     <<"regulatory_risk", "supervisor">>, <<"supervisor", "END">>}

\* the key each risk node returns (graph.py lines 26-44)
ReportKey ==
    [market_risk      |-> "market_risk_report",
     credit_risk      |-> "credit_risk_report",
     liquidity_risk   |-> "liquidity_risk_report",
     operational_risk |-> "operational_risk_report",
     regulatory_risk  |-> "regulatory_risk_report"]

ReportKeys == {ReportKey[n] : n \in RiskNodes}

\* the key supervisor_node reads for each category (agents.py lines 297-303)
risk_keys ==
    <<"market_risk_report", "credit_risk_report", "liquidity_risk_report",
      "operational_risk_report", "regulatory_risk_report">>

\* A value of the state, tagged with who wrote it in which run; the tag is
\* not program data, it tells the initial '' from a report that is ''.
Tagged(text, by, r) == [text |-> text, by |-> by, run |-> r]

\* initial_state of main(), lines 21-28, for run r
initial_state(r) ==
    [k \in ReportKeys \cup {"final_report"} |-> Tagged(<<>>, "input", r)]

\* what a risk agent's report['output'] may be: nothing, or a report
AgentOutputs ==
    {<<>>,
     ReportText([prefix |-> <<>>, summary |-> TRUE, scored |-> TRUE, pad |-> 1,
                 score |-> <<"0", ".", "7", "3">>, suffix |-> <<>>])}

\* what supervisor_agent.invoke may return as final_report['output']
SupervisorOutputs ==
    {<<>>,
     SynthesisText([items |-> 5, hdr |-> TRUE, sep |-> TRUE, rows |-> 5,
                    defect |-> 0, kind |-> "ok", tail |-> "final"])}

\* StepComplete with the join dropped: one finished node ends the superstep
StepCompleteAny == \E n \in Nodes : task[n] = "finished"

\* every node scheduled for the superstep has finished
StepComplete ==
    /\ \A n \in Nodes : task[n] \in {"idle", "finished"}
    /\ \E n \in Nodes : task[n] = "finished"

\* agent_graph.stream(initial_state), main.py line 31
Invoke ==
    /\ status \in {"idle", "done", "failed"}
    /\ run < MaxRuns
    /\ run' = run + 1
    /\ status' = "running"
    /\ state' = initial_state(run + 1)
    /\ task' = [n \in Nodes |-> IF n \in EntryPoints THEN "scheduled" ELSE "idle"]
    /\ writes' = {}
    /\ superstep' = 1
    /\ seen' = <<>>
    /\ UNCHANGED <<coreVars, truncVars, trackerVars>>

\* a scheduled node is called with the state of the superstep's start;
\* supervisor_node reads the five reports from it (agents.py lines 297-303)
StartNode(n) ==
    /\ status = "running"
    /\ task[n] = "scheduled"
    /\ task' = [task EXCEPT ![n] = "running"]
    /\ seen' = IF n = "supervisor"
               THEN [i \in 1..Len(risk_keys) |-> state[risk_keys[i]]]
               ELSE seen
    /\ UNCHANGED <<status, run, state, writes, superstep>>
    /\ UNCHANGED <<coreVars, truncVars, trackerVars>>

\* Inside agent.invoke (graph.py lines 27-43, agents.py line 310) the agent
\* runs one of its tools: tavily_search_with_limit or get_stock_info, whose
\* first statement is rate_limiter.log_call(service).  The call is made on
\* the thread of node n and proceeds by the steps of log_call.  The clock
\* stands still in this specification: every call is logged at time 0.
ToolCall(n, s) ==
    /\ status = "running"
    /\ task[n] = "running"
    /\ started < MaxTools
    /\ Begin(n, "log_call", s)

\* a risk node returns {"<category>_risk_report": report['output']}
FinishRisk(n) ==
    /\ status = "running"
    /\ n \in RiskNodes
    /\ task[n] = "running"
    /\ op[n] = "none"
    /\ \E out \in AgentOutputs :
          writes' = writes \cup {[key |-> ReportKey[n],
                                  value |-> Tagged(out, n, run)]}
    /\ task' = [task EXCEPT ![n] = "finished"]
    /\ UNCHANGED <<status, run, state, superstep, seen>>
    /\ UNCHANGED <<coreVars, truncVars, trackerVars>>

\* risk_json of supervisor_node (agents.py lines 304-307)
risk_json(reports) ==
    [name \in {risk_names[i] : i \in 1..Len(risk_names)} |->
        Bind(CHOOSE j \in 1..Len(risk_names) : risk_names[j] = name, LAMBDA i :
        Bind(reports[i].text, LAMBDA text :
        Bind(extract_summary_and_score(text), LAMBDA e :
            [summary |-> e.summary, impact_score |-> e.score])))]

\* supervisor_node returns {"final_report": formatted} (lines 308-312)
FinishSupervisor ==
    /\ status = "running"
    /\ task["supervisor"] = "running"
    /\ op["supervisor"] = "none"
    /\ \E final_report \in SupervisorOutputs, fb \in {risk_json(seen)} :
          \E formatted \in postprocess_supervisor_output(final_report, fb) :
             writes' = writes \cup {[key |-> "final_report",
                                     value |-> Tagged(formatted, "supervisor", run)]}
    /\ task' = [task EXCEPT !["supervisor"] = "finished"]
    /\ UNCHANGED <<status, run, state, superstep, seen>>
    /\ UNCHANGED <<coreVars, truncVars, trackerVars>>

\* an agent call raises inside a node: the run is aborted
NodeRaises(n) ==
    /\ status = "running"
    /\ task[n] = "running"
    /\ op[n] = "none"
    /\ status' = "failed"
    /\ task' = [m \in Nodes |-> IF task[m] = "finished" THEN "finished" ELSE "idle"]
    /\ writes' = {}
    /\ UNCHANGED <<run, state, superstep, seen>>
    /\ UNCHANGED <<coreVars, truncVars, trackerVars>>

\* the end of a superstep: the writes are applied and the successors of
\* the nodes that ran are scheduled; the run ends when there are none
EndStep ==
    /\ status = "running"
    /\ StepComplete
    /\ LET ran  == {n \in Nodes : task[n] = "finished"}
           next == {m \in Nodes : \E n \in ran : <<n, m>> \in Edges}
       IN  /\ state' = [k \in DOMAIN state |->
                          IF \E w \in writes : w.key = k
                          THEN (CHOOSE w \in writes : w.key = k).value
                          ELSE state[k]]
           /\ task' = [n \in Nodes |-> IF n \in next THEN "scheduled" ELSE "idle"]
           /\ status' = IF next = {} THEN "done" ELSE "running"
    /\ writes' = {}
    /\ superstep' = superstep + 1
    /\ UNCHANGED <<run, seen>>
    /\ UNCHANGED <<coreVars, truncVars, trackerVars>>

InitGraph ==
    /\ GraphIdle
    /\ TruncateIdle
    /\ calls = <<>>
    /\ lock = "free"
    /\ clock = 0
    /\ op = [n \in Nodes |-> "none"]
    /\ tpc = [n \in Nodes |-> "out"]
    /\ service = [n \in Nodes |-> ""]
    /\ now = [n \in Nodes |-> 0]
    /\ kept = [n \in Nodes |-> <<>>]
    /\ result = [n \in Nodes |-> 0]
    /\ started = 0
    /\ logged = <<>>
    /\ layout = <<>>
    /\ llm_output = <<>>
    /\ fallback_scores = Fallback(<<0, 0, 0, 0, 0>>)
    /\ output = [risks |-> <<>>, final_risk_score |-> Zero]
    /\ raised = ""
    /\ report_text = <<>>
    /\ extracted = NoExtract
    /\ pc = "start"

NextGraph ==
    \/ Invoke
    \/ \E n \in Nodes : StartNode(n)
    \/ \E n \in RiskNodes : FinishRisk(n)
    \/ FinishSupervisor
    \/ \E n \in Nodes : NodeRaises(n)
    \/ EndStep
    \/ \E n \in Nodes, s \in Services : ToolCall(n, s)
    \/ \E n \in Nodes : Acquire(n)
    \/ \E n \in Nodes : AppendNow(n)
    \/ \E n \in Nodes : Filter(n)
    \/ \E n \in Nodes : Assign(n)
    \/ \E n \in Nodes : Release(n)

SpecGraph == InitGraph /\ [][NextGraph]_vars

\* ------------------------------------------------------------------
\* Specification: threads calling the methods of rate_limiter
\* ------------------------------------------------------------------

InitTracker ==
    /\ calls = <<>>
    /\ lock = "free"
    /\ clock = 0
    /\ op = [th \in Threads |-> "none"]
    /\ tpc = [th \in Threads |-> "out"]
    /\ service = [th \in Threads |-> ""]
    /\ now = [th \in Threads |-> 0]
    /\ kept = [th \in Threads |-> <<>>]
    /\ result = [th \in Threads |-> 0]
    /\ started = 0
    /\ logged = <<>>
    /\ GraphIdle
    /\ TruncateIdle
    /\ layout = <<>>
    /\ llm_output = <<>>
    /\ fallback_scores = Fallback(<<0, 0, 0, 0, 0>>)
    /\ output = [risks |-> <<>>, final_risk_score |-> Zero]
    /\ raised = ""
    /\ report_text = <<>>
    /\ extracted = NoExtract
    /\ pc = "start"

NextTracker ==
    \/ Tick
    \/ \E th \in Threads, method \in Methods, s \in Services : Begin(th, method, s)
    \/ \E th \in Threads : Acquire(th)
    \/ \E th \in Threads : AppendNow(th)
    \/ \E th \in Threads : Filter(th)
    \/ \E th \in Threads : Assign(th)
    \/ \E th \in Threads : ReturnLen(th)
    \/ \E th \in Threads : FilterAll(th)
    \/ \E th \in Threads : ReturnDict(th)
    \/ \E th \in Threads : Release(th)

SpecTracker == InitTracker /\ [][NextTracker]_vars

\* ------------------------------------------------------------------
\* Vocabulary of the properties
\* ------------------------------------------------------------------

Categories == 1..Len(risk_names)

\* the entries of output["risks"] that carry category i
EntriesOf(i) == {j \in 1..Len(output.risks) : output.risks[j].name = risk_names[i]}

\* the score the fallback mapping holds for category i
FallbackOf(i) == fallback_scores[risk_names[i]].impact_score

\* the sum of the impact_score values of risks from entry j on, added to acc
RECURSIVE SumImpact(_, _, _)
SumImpact(risks, j, acc) ==
    IF j > Len(risks) THEN acc
    ELSE Bind(FAdd(acc, risks[j].impact_score),
              LAMBDA sum : SumImpact(risks, j + 1, sum))

\* f is a number of the interval [0, 1]
InUnitInterval(f) ==
    /\ f.cls = "fin"
    /\ f.n >= 0
    /\ f.n = 0 \/ Lead(f) < 0 \/ (f.n = 1 /\ f.x = 0)

\* the kind of data row k of the layout
KindOfRow(k) == IF k = layout.defect THEN layout.kind ELSE "ok"

\* the number written in the score cell of data row k (rows whose cell is a number)
WrittenScore(k) ==
    CASE KindOfRow(k) = "big"  -> Milli(1500)
      [] KindOfRow(k) = "neg"  -> Milli(-200)
      [] KindOfRow(k) = "exp"  -> Fin(10, 0)
      [] KindOfRow(k) = "long" -> Fin(7355, -4)
      [] KindOfRow(k) = "tie"  -> Milli(2675)
      [] OTHER                 -> Milli(RowScoreValue(k))

\* the layout the supervisor prompt mandates: the five list items, the header,
\* the separator, five data rows with a numeric score each, every line ended
MandatedLayout ==
    /\ layout.items = Len(risk_names)
    /\ layout.hdr /\ layout.sep
    /\ layout.rows = Len(risk_names)
    /\ layout.kind \in {"ok", "big", "neg", "exp", "long", "tie", "cr"}
    /\ layout.tail \in {"nl", "final"}

\* ------------------------------------------------------------------
\* Properties of postprocess_supervisor_output (specification Spec)
\* ------------------------------------------------------------------

\* C1: final_risk_score is the mean of the impact_score values present in the
\* returned risks array, rounded to 2 decimals (stated for a non-empty array;
\* either hundredth is accepted when that mean is a rounding tie).
C1_FinalIsMeanOfRisks ==
    (pc = "done" /\ output.risks # <<>>) =>
        output.final_risk_score
            \in RoundMean(SumImpact(output.risks, 1, Zero), Len(output.risks))

\* C2: the risks array has exactly five entries, one per category, in the
\* enumeration order, whatever the synthesis text.
C2_FiveRisksInOrder ==
    pc = "done" =>
        /\ Len(output.risks) = Len(risk_names)
        /\ \A i \in Categories : output.risks[i].name = risk_names[i]

\* C3: under the layout the prompt mandates, data row i's score, rounded to 2
\* decimals, is category i's impact_score.
C3_RowScoreIsCategoryScore ==
    (pc = "done" /\ MandatedLayout) =>
        \A i \in Categories :
            /\ EntriesOf(i) # {}
            /\ \A j \in EntriesOf(i) :
                   output.risks[j].impact_score = Round2(WrittenScore(i))

\* C4: numbered-list item i of the text (i up to five) is, after truncation,
\* the summary of the i-th category of the enumeration, whatever the table.
C4_ItemIsCategorySummary ==
    pc = "done" =>
        \A i \in Categories :
            i <= layout.items =>
                \E j \in EntriesOf(i) :
                    output.risks[j].summary
                        = truncate_summary(ItemText(i), MaxChars)

\* C5: a table with the five score rows 0.8, 0.6, 0.4, 0.9, 0.5 and no
\* numbered list gives five empty summaries and final_risk_score 0.64.
C5_ExampleTable ==
    (/\ pc = "done"
     /\ layout.items = 0 /\ layout.hdr /\ layout.tail = "nl"
     /\ layout.rows = Len(risk_names) /\ layout.kind = "ok") =>
        /\ \A i \in Categories :
               /\ EntriesOf(i) # {}
               /\ \A j \in EntriesOf(i) : output.risks[j].summary = <<>>
        /\ output.final_risk_score = Milli(640)

\* C6: when the score cell of data row d (d up to five) is the text "high",
\* category d is present with the fallback score of category d (rounded to 2
\* decimals), and the category of every other data row has its own row's score.
C6_UnparsableCellFallsBack ==
    (/\ pc = "done"
     /\ layout.hdr /\ layout.tail # "cut"
     /\ layout.kind = "high" /\ layout.defect <= Len(risk_names)) =>
        \A i \in Categories :
            i <= layout.rows =>
                /\ EntriesOf(i) # {}
                /\ \A j \in EntriesOf(i) :
                       output.risks[j].impact_score =
                           IF i = layout.defect THEN Round2(FallbackOf(i))
                           ELSE Round2(WrittenScore(i))

\* C7: with no table in the text, every category's impact_score is the
\* fallback score of that category, and final_risk_score is the mean of those
\* five returned scores.  Both are taken to the 2 decimals the function
\* rounds to, so that a fallback score of three decimals is not counted
\* against the statement: C7 as worded ("exactly equal") asks no less.
C7_NoTableFallbackAndMean ==
    (pc = "done" /\ ~table_match(llm_output).found) =>
        /\ Len(output.risks) = Len(risk_names)
        /\ \A i \in Categories :
               /\ output.risks[i].name = risk_names[i]
               /\ output.risks[i].impact_score = Round2(FallbackOf(i))
        /\ output.final_risk_score
               \in RoundMean(SumImpact(output.risks, 1, Zero), Len(risk_names))

\* C10: every impact_score of the risks array lies in [0, 1] when every
\* fallback score does.
C10_ImpactScoresInUnitInterval ==
    (pc = "done" /\ \A i \in Categories : InUnitInterval(FallbackOf(i))) =>
        \A j \in 1..Len(output.risks) :
            InUnitInterval(output.risks[j].impact_score)

\* ------------------------------------------------------------------
\* Properties of extract_summary_and_score (specification SpecExtract)
\* ------------------------------------------------------------------

\* "Summary: Foo bar." followed on the next line by "Impact Score: 0.73"
Fragment == SummaryLit \o <<" ">> \o FooBar \o <<NL>> \o ImpactScoreLit
            \o <<" ", "0", ".", "7", "3">>

FragmentResult == [summary |-> FooBar, score |-> Milli(730)]

\* C8 as stated: any report containing the fragment yields ("Foo bar.", 0.73).
C8_FragmentExtracted ==
    (pc = "done" /\ \E p \in 1..Len(report_text) : MatchAt(report_text, p, Fragment))
        => extracted = FragmentResult

\* C8 amended: a report containing the fragment yields ("Foo bar.", 0.73) when
\* no "Summary:" and no "Impact Score:" occurs before the fragment and the
\* character after the fragment, if any, is not a digit.
C8_FirstMarkersExtracted ==
    pc = "done" =>
        \A p \in 1..Len(report_text) :
            (/\ MatchAt(report_text, p, Fragment)
             /\ \A q \in 1..(p - 1) :
                    /\ ~MatchAt(report_text, q, SummaryLit)
                    /\ ~MatchAt(report_text, q, ImpactScoreLit)
             /\ \/ p + Len(Fragment) > Len(report_text)
                \/ ~IsDigit(report_text[p + Len(Fragment)]))
                => extracted = FragmentResult

\* C8 witness: the fragment stood between other text and was extracted
C8_Witness ==
    /\ pc = "done"
    /\ layout.prefix # <<>> /\ layout.suffix # <<>>
    /\ \E p \in 1..Len(report_text) : MatchAt(report_text, p, Fragment)
    /\ summary_match(report_text) > 1
    /\ extracted = FragmentResult

\* C9: the extracted score lies in [0, 1] for every report.
C9_ScoreInUnitInterval ==
    pc = "done" => InUnitInterval(extracted.score)


\* ------------------------------------------------------------------
\* truncate_summary
\* ------------------------------------------------------------------

IsPrefixOf(r, t) == Len(r) <= Len(t) /\ r = SubSeq(t, 1, Len(r))

\* positions of a '.' among the first m characters of t
PeriodsWithin(t, m) == {q \in 1..m : q <= Len(t) /\ t[q] = "."}

\* C11: truncate_summary(text, max_chars) returns text unchanged when
\* len(text) <= max_chars; otherwise, when the first max_chars characters
\* contain a '.', the prefix of text up to and including the last such '.';
\* otherwise exactly the first max_chars characters; and in every case a
\* prefix of text of length at most max_chars.
C11_TruncateCases ==
    pc = "done" =>
        /\ Len(tr_text) <= tr_max => tr_result = tr_text
        /\ (Len(tr_text) > tr_max /\ PeriodsWithin(tr_text, tr_max) # {}) =>
              /\ Len(tr_result) = SetMax(PeriodsWithin(tr_text, tr_max))
              /\ tr_result = SubSeq(tr_text, 1, Len(tr_result))
        /\ (Len(tr_text) > tr_max /\ PeriodsWithin(tr_text, tr_max) = {}) =>
              tr_result = SubSeq(tr_text, 1, tr_max)
        /\ IsPrefixOf(tr_result, tr_text)
        /\ Len(tr_result) <= tr_max

\* a text longer than max_chars with two periods in its first max_chars
\* characters and one after them, cut after the second
C11_Witness ==
    /\ pc = "done"
    /\ Len(tr_text) > tr_max
    /\ Cardinality(PeriodsWithin(tr_text, tr_max)) = 2
    /\ PeriodsWithin(tr_text, Len(tr_text)) # PeriodsWithin(tr_text, tr_max)
    /\ Len(tr_result) = SetMax(PeriodsWithin(tr_text, tr_max))
    /\ Len(tr_result) < tr_max

\* C12 (as stated): truncate_summary with max_chars = 350 on the 602
\* character text of 500 'A', ". " and 100 'B' returns a prefix that ends
\* with a '.', the last '.' within the first 350 characters.
C12_ExampleEndsWithPeriod ==
    (pc = "done" /\ tr_text = ExampleText /\ tr_max = MaxChars) =>
        /\ IsPrefixOf(tr_result, tr_text)
        /\ tr_result # <<>>
        /\ tr_result[Len(tr_result)] = "."

\* C12 (amended): on that text the first 350 characters hold no '.', the
\* only one being the 501st character, and truncate_summary returns exactly
\* the first 350 characters, all of them 'A'.
C12_ExampleHardCut ==
    (pc = "done" /\ tr_text = ExampleText /\ tr_max = MaxChars) =>
        /\ PeriodsWithin(tr_text, tr_max) = {}
        /\ PeriodsWithin(tr_text, Len(tr_text)) = {501}
        /\ tr_result = [k \in 1..350 |-> "A"]

C12_Witness ==
    /\ pc = "done"
    /\ tr_text = ExampleText
    /\ tr_max = MaxChars
    /\ Len(tr_text) = 602
    /\ Len(tr_result) = 350


\* ------------------------------------------------------------------
\* postprocess_supervisor_output: exceptions
\* ------------------------------------------------------------------

\* the call has not raised
NoException == pc # "raised" /\ raised = ""

\* C14: postprocess_supervisor_output never raises: for every synthesis
\* text and every fallback mapping holding an impact_score for all five
\* categories it returns a record with a numeric final_risk_score; when the
\* table is found but no row yields a score, or every resolved score is
\* exactly zero, the final_risk_score is 0.0 and nothing is divided by zero.
C14_NeverRaises ==
    /\ NoException
    /\ pc = "done" =>
          /\ output.final_risk_score.cls = "fin"
          /\ LET ts == Collected(llm_output, fallback_scores).table_scores
             IN  (\A i \in 1..Len(ts) : ts[i] = NoScore \/ ts[i][1] = Zero) =>
                    output.final_risk_score = Zero


\* ------------------------------------------------------------------
\* the compiled graph
\* ------------------------------------------------------------------

\* supervisor_node has been called in the current run
SupervisorStarted == status # "idle" /\ seen # <<>>

\* the risk node that returns the i-th key supervisor_node reads
NodeOfKey(i) == CHOOSE n \in RiskNodes : ReportKey[n] = risk_keys[i]

\* C13: in every run of the compiled graph, whatever the order in which
\* the five risk nodes execute, the supervisor node does not start until
\* all five have finished and each has written its report key into the
\* state; every report the supervisor reads is the one written by that
\* run's risk node, never the initial empty string.
C13_SupervisorAfterAllReports ==
    SupervisorStarted =>
        \A i \in 1..Len(risk_keys) :
            LET n == NodeOfKey(i)
            IN  /\ task[n] \notin {"scheduled", "running"}
                /\ state[risk_keys[i]].by = n
                /\ state[risk_keys[i]].run = run
                /\ seen[i] = state[risk_keys[i]]
                /\ seen[i].by # "input"

\* the second run's supervisor has returned, having read reports written
\* in that run, one of them empty and one of them not
C13_Witness ==
    /\ status # "idle"
    /\ run = 2
    /\ task["supervisor"] = "finished"
    /\ seen # <<>>
    /\ \A i \in 1..Len(risk_keys) : seen[i].run = 2 /\ seen[i].by = NodeOfKey(i)
    /\ \E i \in 1..Len(risk_keys) : seen[i].text = <<>>
    /\ \E i \in 1..Len(risk_keys) : seen[i].text # <<>>


\* ------------------------------------------------------------------
\* RateLimitTracker
\* ------------------------------------------------------------------

\* every log_call(s) that has returned is still inside the window
AllInWindow(s) ==
    \A i \in 1..Len(CallsOf(logged, s)) :
        clock - CallsOf(logged, s)[i] < window_seconds

\* the count a get_all_counts result gives for s (no entry: none counted)
CountIn(d, s) == IF s \in DOMAIN d THEN d[s] ELSE 0

\* the log_call(s) calls that have begun and not returned
InFlight(s) == {th \in DOMAIN op : op[th] = "log_call" /\ service[th] = s}

\* n counts every returned log_call(s) once, and beyond them at most the
\* calls still in flight: exactly the returned ones when none is in flight
CountsOnce(n, s) ==
    /\ n >= Len(CallsOf(logged, s))
    /\ n <= Len(CallsOf(logged, s)) + Cardinality(InFlight(s))

\* a get_count or get_all_counts about to return reports, for a service
\* whose returned log_calls are all inside the window, exactly their number
CountsAreExact ==
    \A th \in DOMAIN tpc :
        tpc[th] = "exit" =>
            /\ (op[th] = "get_count" /\ AllInWindow(service[th])) =>
                  CountsOnce(result[th], service[th])
            /\ op[th] = "get_all_counts" =>
                  \A s \in Services :
                      AllInWindow(s) => CountsOnce(CountIn(result[th], s), s)

\* a step of log_call(s) leaves the list of every other service as it was
LogCallTouchesOwnService ==
    \A th \in DOMAIN tpc :
        (op[th] = "log_call" /\ (AppendNow(th) \/ Filter(th) \/ Assign(th))) =>
            \A s \in Services \ {service[th]} :
                CallsOf(calls', s) = CallsOf(calls, s)

\* C15: RateLimitTracker is thread-safe: under any interleaving of
\* log_call, get_count and get_all_counts called from several threads no
\* logged call is lost or counted twice: once k log_call(service) calls have
\* returned and all of them are still inside the window, get_count(service)
\* returns exactly k; and a log_call for one service never changes the
\* count of another service.
C15_ThreadSafe ==
    /\ []CountsAreExact
    /\ [][LogCallTouchesOwnService]_vars

\* a get_count is returning 2 for a service with two returned log_calls,
\* both inside the window, the one that read the clock first having
\* appended last
C15_Witness ==
    \E th \in DOMAIN tpc :
        /\ tpc[th] = "exit"
        /\ op[th] = "get_count"
        /\ result[th] = 2
        /\ InFlight(service[th]) = {}
        /\ AllInWindow(service[th])
        /\ CallsOf(logged, service[th]) = <<30, 0>>
        /\ CallsOf(calls, service[th]) = <<30, 0>>

=============================================================================
